---- MODULE Spec2Model ----
(***************************************************************************)
(* A model of the .env scanner of FollowTheProcess/dotenv                  *)
(* (internal/syntax/scanner/scanner.go, internal/syntax/syntax.go and the  *)
(* token package).  The Scanner struct is the record `scanner`; every      *)
(* method of the scanner is an operator from a scanner record to a scanner *)
(* record (and a value where the method returns one).  Byte offsets are    *)
(* 0-indexed as in the Go code: the byte at offset i is src[i + 1].        *)
(***************************************************************************)
EXTENDS Integers, Sequences, FiniteSets, TLC

(***************************************************************************)
(* Bounds of the model.                                                    *)
(***************************************************************************)
\* Every buffer over Alphabet of at most MaxLen bytes is scanned.
MaxLen == 2
\* The caller goes on calling Scan until it has been handed EOF this often.
MaxEofs == 2
MaxLine == 2      \* Position.Line is drawn from 0..MaxLine
MaxCol == 2       \* Position.StartCol and EndCol are drawn from 0..MaxCol
MaxOffset == 1    \* Position.Offset is drawn from 0..MaxOffset
MaxFile == 4      \* the file the handler reads holds at most MaxFile bytes

(***************************************************************************)
(* Bytes and runes.                                                        *)
(***************************************************************************)
NL     == 10    \* '\n'
SP     == 32    \* ' '
DQUOTE == 34    \* '"'
HASH   == 35    \* '#'
DOLLAR == 36    \* '$'
SQUOTE == 39    \* '\''
LPAREN == 40    \* '('
RPAREN == 41    \* ')'
EQUALS == 61    \* '='
LBRACE == 123   \* '{'
RBRACE == 125   \* '}'

\* const eof = rune(-1)
eof == -1
\* utf8.RuneError, returned (with width 1) for a byte that starts no valid encoding
RuneError == 65533

\* The bytes the exhaustive part of Init draws buffers from: one byte of
\* each class the dispatch of Scan distinguishes, 'a' as the identifier
\* character, and the two bytes 0xC2 0xA0, which are the UTF-8 encoding of
\* U+00A0 (a space for unicode.IsSpace) and invalid UTF-8 on their own.
Alphabet == {NL, SP, DQUOTE, HASH, DOLLAR, SQUOTE, EQUALS, LBRACE, RBRACE, 97, 194, 160}

\* utf8.DecodeRune on a non-empty slice whose first bytes are b1 (and b2,
\* -1 when the slice has one byte), for bytes below 0xE0: ASCII is one byte
\* wide, 0xC2..0xDF followed by a continuation byte is a two-byte rune, and
\* anything else is (RuneError, 1).
DecodeRune(b1, b2) ==
    IF b1 < 128 THEN [char |-> b1, width |-> 1]
    ELSE IF b1 >= 194 /\ b1 <= 223 /\ b2 >= 128 /\ b2 <= 191
         THEN [char |-> (b1 - 192) * 64 + (b2 - 128), width |-> 2]
         ELSE [char |-> RuneError, width |-> 1]

\* unicode.IsSpace for runes up to U+07FF: '\t', '\n', '\v', '\f', '\r',
\* ' ', U+0085 (NEL), U+00A0 (NBSP).
IsSpace(r) == r \in {9, 10, 11, 12, 13, 32, 133, 160}

isAlpha(r) == (r >= 97 /\ r <= 122) \/ (r >= 65 /\ r <= 90)

isDigit(r) == r >= 48 /\ r <= 57

isIdent(r) == isAlpha(r) \/ isDigit(r) \/ r = 95 \/ r = 45

\* isValue as it would be if only ASCII characters were allowed in a value.
isValue_ascii(r) == ~IsSpace(r) /\ r # eof /\ r < 128

isValue(r) == ~IsSpace(r) /\ r # eof

(***************************************************************************)
(* Tokens (package token).                                                 *)
(***************************************************************************)
Kind == {"EOF", "Error", "Comment", "Eq", "RawString", "String", "Ident",
         "VarInterp", "CmdInterp"}

Token(kind, start, end) == [Kind |-> kind, Start |-> start, End |-> end]

\* Token.Is(kinds...)
Is(tok, kinds) == tok.Kind \in kinds

(***************************************************************************)
(* Scanner primitives.  A scanner record has the fields of the Go struct   *)
(* (handler is TRUE when a non-nil handler is installed), and two fields   *)
(* of the environment: `calls`, the invocations of the handler so far, and *)
(* `hung`, which is TRUE when a loop of the scanner was still running      *)
(* after more iterations than the buffer has bytes left, i.e. the call     *)
(* never returns.                                                          *)
(***************************************************************************)
New(name, src, handler) ==
    [handler |-> handler, name |-> name, src |-> src,
     start |-> 0, pos |-> 0, line |-> 1, lineOffset |-> 0,
     calls |-> << >>, hung |-> FALSE]

ByteAt(s, i) == IF i < Len(s.src) THEN s.src[i + 1] ELSE -1

\* peek: the next rune, or eof; the scanner is not advanced.
peek(s) ==
    IF s.pos >= Len(s.src) THEN eof
    ELSE DecodeRune(ByteAt(s, s.pos), ByteAt(s, s.pos + 1)).char

\* next as it would be if a newline counted a line without moving the
\* offset of the line.
next_noOffset(s) ==
    IF s.pos >= Len(s.src) THEN s
    ELSE LET d == DecodeRune(ByteAt(s, s.pos), ByteAt(s, s.pos + 1))
             p == s.pos + d.width
         IN IF d.char = NL
            THEN [s EXCEPT !.pos = p, !.line = s.line + 1]
            ELSE [s EXCEPT !.pos = p]

\* next as it would be if a call at the end of the buffer counted a line.
next_lineAtEof(s) ==
    IF s.pos >= Len(s.src) THEN [s EXCEPT !.line = s.line + 1]
    ELSE LET d == DecodeRune(ByteAt(s, s.pos), ByteAt(s, s.pos + 1))
             p == s.pos + d.width
         IN IF d.char = NL
            THEN [s EXCEPT !.pos = p, !.line = s.line + 1, !.lineOffset = p]
            ELSE [s EXCEPT !.pos = p]

\* next: the scanner after s.next(); the rune returned is peek(s).
next(s) ==
    IF s.pos >= Len(s.src) THEN s
    ELSE LET d == DecodeRune(ByteAt(s, s.pos), ByteAt(s, s.pos + 1))
             p == s.pos + d.width
         IN IF d.char = NL
            THEN [s EXCEPT !.pos = p, !.line = s.line + 1, !.lineOffset = p]
            ELSE [s EXCEPT !.pos = p]

\* rest: src[pos:], nil (the empty slice) at or past the end.
rest(s) ==
    IF s.pos >= Len(s.src) THEN << >>
    ELSE SubSeq(s.src, s.pos + 1, Len(s.src))

\* discard as it would be if it reset start to the start of the line.
discard_toLine(s) == [s EXCEPT !.start = s.lineOffset]

\* discard as it would be if it blanked the discarded bytes in the buffer.
discard_wipe(s) ==
    [s EXCEPT !.start = s.pos,
              !.src = [k \in 1..Len(s.src) |->
                          IF k > s.start /\ k <= s.pos THEN SP ELSE s.src[k]]]

discard(s) == [s EXCEPT !.start = s.pos]

\* bytes.HasPrefix
HasPrefix(b, prefix) ==
    /\ Len(b) >= Len(prefix)
    /\ SubSeq(b, 1, Len(prefix)) = prefix

RECURSIVE nextTimes(_, _)
nextTimes(s, n) == IF n = 0 THEN s ELSE nextTimes(next(s), n - 1)

\* take: [s, ok]; chars is a sequence of ASCII bytes, so `for range chars`
\* calls next once per byte of chars.
take(s, chars) ==
    IF ~HasPrefix(rest(s), chars) THEN [s |-> s, ok |-> FALSE]
    ELSE [s |-> nextTimes(s, Len(chars)), ok |-> TRUE]

\* The loop of takeUntil.  Each iteration that does not return calls next;
\* fuel is the number of iterations after which the loop is declared hung.
RECURSIVE takeUntilLoop(_, _, _)
takeUntilLoop(s, runes, fuel) ==
    IF peek(s) \in runes THEN s
    ELSE IF fuel = 0 THEN [s EXCEPT !.hung = TRUE]
    ELSE takeUntilLoop(next(s), runes, fuel - 1)

takeUntil(s, runes) == takeUntilLoop(s, runes, Len(s.src) + 1)

\* The predicates the scanner passes to takeWhile and skip, by name.
Holds(predicate, r) ==
    IF predicate = "unicode.IsSpace" THEN IsSpace(r)
    ELSE IF predicate = "isIdent" THEN isIdent(r)
    ELSE isValue(r)

\* The loop of takeWhile, with fuel as in takeUntilLoop.
RECURSIVE takeWhileLoop(_, _, _)
takeWhileLoop(s, predicate, fuel) ==
    IF ~Holds(predicate, peek(s)) THEN s
    ELSE IF fuel = 0 THEN [s EXCEPT !.hung = TRUE]
    ELSE takeWhileLoop(next(s), predicate, fuel - 1)

takeWhile(s, predicate) == takeWhileLoop(s, predicate, Len(s.src) + 1)

\* skip as it would be if the skipped text stayed part of the next token.
skip_noDiscard(s, predicate) == takeWhile(s, predicate)

skip(s, predicate) == discard(takeWhile(s, predicate))

\* token as it would be with an inclusive end offset that is one too far.
token_offByOne(s, kind) ==
    [s |-> discard(s), tok |-> Token(kind, s.start, s.pos + 1)]

\* token: [s, tok]; the start position is reset before the token is returned.
token(s, kind) ==
    [s |-> discard(s), tok |-> Token(kind, s.start, s.pos)]

\* error as it would be if it resumed scanning one byte after the start of
\* the offending text.
error_resume(s, msg) ==
    LET r == token(s, "Error")
        t == [r.s EXCEPT !.pos = IF s.start < s.pos THEN s.start + 1 ELSE s.pos]
    IN IF ~t.handler THEN [s |-> t, tok |-> r.tok]
       ELSE [s   |-> [t EXCEPT !.calls = Append(t.calls,
                         [pos |-> [Name |-> t.name, Offset |-> t.pos, Line |-> t.line,
                                   StartCol |-> 1 + t.start - t.lineOffset,
                                   EndCol |-> 1 + t.pos - t.lineOffset],
                          msg |-> msg])],
             tok |-> r.tok]

\* error as it would be if the handler were never called.
error_silent(s, msg) == token(s, "Error")

\* error as it would be if the nil check came before the token was made.
error_nilFirst(s, msg) ==
    IF ~s.handler THEN [s |-> s, tok |-> Token("EOF", 0, 0)]
    ELSE LET r == token(s, "Error")
             t == r.s
         IN [s   |-> [t EXCEPT !.calls = Append(t.calls,
                         [pos |-> [Name |-> t.name, Offset |-> t.pos, Line |-> t.line,
                                   StartCol |-> 1 + t.start - t.lineOffset,
                                   EndCol |-> 1 + t.pos - t.lineOffset],
                          msg |-> msg])],
             tok |-> r.tok]

\* error as it would be if the start column were taken from the start of
\* the erroneous text, before the token resets it.
error_startFirst(s, msg) ==
    LET r == token(s, "Error")
        t == r.s
    IN IF ~t.handler THEN r
       ELSE [s   |-> [t EXCEPT !.calls = Append(t.calls,
                         [pos |-> [Name |-> t.name, Offset |-> t.pos, Line |-> t.line,
                                   StartCol |-> 1 + s.start - t.lineOffset,
                                   EndCol |-> 1 + t.pos - t.lineOffset],
                          msg |-> msg])],
             tok |-> r.tok]

\* error: [s, tok]; the handler, when installed, is called with the position.
error(s, msg) ==
    LET r == token(s, "Error")
        t == r.s
        position == [Name     |-> t.name,
                     Offset   |-> t.pos,
                     Line     |-> t.line,
                     StartCol |-> 1 + t.start - t.lineOffset,
                     EndCol   |-> 1 + t.pos - t.lineOffset]
    IN IF ~t.handler THEN r
       ELSE [s   |-> [t EXCEPT !.calls = Append(t.calls, [pos |-> position, msg |-> msg])],
             tok |-> r.tok]

\* A message is the format string and the arguments formatted into it:
\* error is called with a plain message, errorf formats one rune with %q.
Msg(text) == [format |-> text, args |-> << >>]

Sprintf(format, char) == [format |-> format, args |-> <<char>>]

errorf(s, format, char) == error(s, Sprintf(format, char))

(***************************************************************************)
(* The scanning rules.  Each is [s, tok]: the scanner after the rule and   *)
(* the token it returns.                                                   *)
(***************************************************************************)
\* scanComment as it would be if it looked for the newline only.
scanComment_newlineOnly(s) == token(takeUntil(s, {NL}), "Comment")

\* scanComment as it would be if the comment took its newline with it.
scanComment_eatsNewline(s) ==
    LET t == takeUntil(s, {NL, eof})
    IN token(IF peek(t) = NL THEN next(t) ELSE t, "Comment")

scanComment(s) == token(takeUntil(s, {NL, eof}), "Comment")

\* scanRawString as it would be if the token were taken from the scanner's
\* own start, opening and closing quote included.
scanRawString_quoted(s) ==
    LET t == takeUntil(s, {SQUOTE, eof})
    IN IF peek(t) = eof THEN error(t, Msg("unterminated string literal"))
       ELSE token(next(t), "RawString")

\* scanRawString as it would be if a raw string also ended at a newline.
scanRawString_line(s) ==
    LET start == s.pos
        t == takeUntil(s, {SQUOTE, NL, eof})
    IN IF peek(t) = eof THEN error(t, Msg("unterminated string literal"))
       ELSE [s |-> discard(next(t)), tok |-> Token("RawString", start, t.pos)]

scanRawString(s) ==
    LET start == s.pos
        t == takeUntil(s, {SQUOTE, eof})
    IN IF peek(t) = eof THEN error(t, Msg("unterminated string literal"))
       ELSE [s |-> discard(next(t)), tok |-> Token("RawString", start, t.pos)]

\* The opening 3 quotes have already been consumed.
\* scanMultilineString as it would be if a lone quote in the body were
\* reported with the message of a literal that ran to the end of input.
scanMultilineString_sameMsg(s) ==
    LET start == s.pos
        t == takeUntil(s, {DQUOTE, eof})
    IN IF peek(t) = eof THEN error(t, Msg("unterminated string literal"))
       ELSE LET end == t.pos
                c == take(t, <<DQUOTE, DQUOTE, DQUOTE>>)
            IN IF ~c.ok THEN error(c.s, Msg("unterminated string literal"))
               ELSE [s |-> discard(c.s), tok |-> Token("String", start, end)]

scanMultilineString(s) ==
    LET start == s.pos
        t == takeUntil(s, {DQUOTE, eof})
    IN IF peek(t) = eof THEN error(t, Msg("unterminated string literal"))
       ELSE LET end == t.pos
                c == take(t, <<DQUOTE, DQUOTE, DQUOTE>>)
            IN IF ~c.ok THEN error(c.s, Msg("unterminated multiline string"))
               ELSE [s |-> discard(c.s), tok |-> Token("String", start, end)]

\* The opening '"' has already been consumed.
scanString(s) ==
    LET m == take(s, <<DQUOTE, DQUOTE>>)
    IN IF m.ok THEN scanMultilineString(discard(m.s))
       ELSE LET start == s.pos
                t == takeUntil(s, {DQUOTE, eof})
            IN IF peek(t) = eof THEN error(t, Msg("unterminated string literal"))
               ELSE [s |-> discard(next(t)), tok |-> Token("String", start, t.pos)]

\* scanExpansion as it would be if the '$' stayed part of the token.
scanExpansion_keepDollar(s) ==
    LET d == s
        char == peek(d)
        n == next(d)
    IN IF char = LBRACE
       THEN LET b == discard(n)
                start == b.pos
                t == takeUntil(b, {RBRACE, eof})
            IN IF peek(t) = eof THEN error(t, Msg("unterminated variable expansion"))
               ELSE [s |-> discard(next(t)), tok |-> Token("VarInterp", start, t.pos)]
       ELSE IF char = LPAREN
       THEN LET b == discard(n)
                start == b.pos
                t == takeUntil(b, {RPAREN, eof})
            IN IF peek(t) = eof THEN error(t, Msg("unterminated command expansion"))
               ELSE [s |-> discard(next(t)), tok |-> Token("CmdInterp", start, t.pos)]
       ELSE IF isIdent(char)
       THEN token(takeWhile(n, "isIdent"), "VarInterp")
       ELSE errorf(n, "unexpected char %q, '$' must be followed by one of '(' or '{'", char)

\* scanExpansion as it would be if a ${ that is never closed were a
\* variable that runs to the end of input.
scanExpansion_openVar(s) ==
    LET d == discard(s)
        char == peek(d)
        n == next(d)
    IN IF char = LBRACE
       THEN LET b == discard(n)
                start == b.pos
                t == takeUntil(b, {RBRACE, eof})
            IN [s |-> discard(next(t)), tok |-> Token("VarInterp", start, t.pos)]
       ELSE IF char = LPAREN
       THEN LET b == discard(n)
                start == b.pos
                t == takeUntil(b, {RPAREN, eof})
            IN IF peek(t) = eof THEN error(t, Msg("unterminated command expansion"))
               ELSE [s |-> discard(next(t)), tok |-> Token("CmdInterp", start, t.pos)]
       ELSE IF isIdent(char)
       THEN token(takeWhile(n, "isIdent"), "VarInterp")
       ELSE errorf(n, "unexpected char %q, '$' must be followed by one of '(' or '{'", char)

\* The opening '$' has already been consumed by Scan.
scanExpansion(s) ==
    LET d == discard(s)
        char == peek(d)
        n == next(d)
    IN IF char = LBRACE
       THEN LET b == discard(n)
                start == b.pos
                t == takeUntil(b, {RBRACE, eof})
            IN IF peek(t) = eof THEN error(t, Msg("unterminated variable expansion"))
               ELSE [s |-> discard(next(t)), tok |-> Token("VarInterp", start, t.pos)]
       ELSE IF char = LPAREN
       THEN LET b == discard(n)
                start == b.pos
                t == takeUntil(b, {RPAREN, eof})
            IN IF peek(t) = eof THEN error(t, Msg("unterminated command expansion"))
               ELSE [s |-> discard(next(t)), tok |-> Token("CmdInterp", start, t.pos)]
       ELSE IF isIdent(char)
       THEN token(takeWhile(n, "isIdent"), "VarInterp")
       ELSE errorf(n, "unexpected char %q, '$' must be followed by one of '(' or '{'", char)

\* The 'e' of export has already been consumed when Scan called next.
scanIdent(s) ==
    LET x == take(s, <<120, 112, 111, 114, 116>>)    \* "xport"
        t == IF x.ok THEN skip(discard(x.s), "unicode.IsSpace") ELSE s
    IN token(takeWhile(t, "isIdent"), "Ident")

\* scanValue as it would be if a value stopped at the first character that
\* is not an identifier character.
scanValue_ident(s) == token(takeWhile(s, "isIdent"), "String")

scanValue(s) == token(takeWhile(s, "isValue"), "String")

\* Scan as it would be if it remembered the '=' it just passed and scanned
\* an identifier character right after it as a value.
Scan_valueAfterEq(s) ==
    LET w == skip(s, "unicode.IsSpace")
        char == peek(w)
        n == next(w)
    IN IF char = eof THEN token(n, "EOF")
       ELSE IF char = HASH THEN scanComment(n)
       ELSE IF char = EQUALS THEN token(n, "Eq")
       ELSE IF char = SQUOTE THEN scanRawString(n)
       ELSE IF char = DQUOTE THEN scanString(n)
       ELSE IF char = DOLLAR THEN scanExpansion(n)
       ELSE IF isIdent(char) /\ w.pos > 0 /\ ByteAt(w, w.pos - 1) = EQUALS
       THEN scanValue(n)
       ELSE IF isIdent(char) THEN scanIdent(n)
       ELSE IF isValue(char) THEN scanValue(n)
       ELSE errorf(n, "unrecognised character: %q", char)

\* Scan as it would be if an '=' took the character after it into its token.
Scan_eqTwo(s) ==
    LET w == skip(s, "unicode.IsSpace")
        char == peek(w)
        n == next(w)
    IN IF char = eof THEN token(n, "EOF")
       ELSE IF char = HASH THEN scanComment(n)
       ELSE IF char = EQUALS THEN token(next(n), "Eq")
       ELSE IF char = SQUOTE THEN scanRawString(n)
       ELSE IF char = DQUOTE THEN scanString(n)
       ELSE IF char = DOLLAR THEN scanExpansion(n)
       ELSE IF isIdent(char) THEN scanIdent(n)
       ELSE IF isValue(char) THEN scanValue(n)
       ELSE errorf(n, "unrecognised character: %q", char)

\* Scan: [s, tok], the scanner after the call and the token returned.
Scan(s) ==
    LET w == skip(s, "unicode.IsSpace")
        char == peek(w)
        n == next(w)
    IN IF char = eof THEN token(n, "EOF")
       ELSE IF char = HASH THEN scanComment(n)
       ELSE IF char = EQUALS THEN token(n, "Eq")
       ELSE IF char = SQUOTE THEN scanRawString(n)
       ELSE IF char = DQUOTE THEN scanString(n)
       ELSE IF char = DOLLAR THEN scanExpansion(n)
       ELSE IF isIdent(char) THEN scanIdent(n)
       ELSE IF isValue(char) THEN scanValue(n)
       ELSE errorf(n, "unrecognised character: %q", char)

(***************************************************************************)
(* The state: one scanner and its caller.                                  *)
(*   scanner  the Scanner struct (with the handler's invocations)          *)
(*   history  one record per Scan call that returned: the token, the       *)
(*            cursor and the number of handler invocations before and      *)
(*            after the call, and the line bookkeeping after it            *)
(*   iter     the iterator returned by All: "idle" before it is ranged     *)
(*            over, "active" between two yields, "done" after it returned  *)
(*            having yielded EOF or Error, "stopped" after yield returned  *)
(*            false                                                        *)
(*   yielded  the tokens passed to yield so far                            *)
(***************************************************************************)
VARIABLES scanner, history, iter, yielded

(***************************************************************************)
(* The state of package syntax: one Position and the calls made on it.     *)
(*   position  the Position value                                          *)
(*   file      what os.ReadFile(position.Name) returns: contents and err   *)
(*   returned  the results IsValid and String returned, in call order      *)
(*   w         what PrettyConsoleHandler wrote to its io.Writer            *)
(***************************************************************************)
VARIABLES position, file, returned, w

(***************************************************************************)
(* The state of two scanners made over one byte slice.                     *)
(*   buffer  the bytes of the slice both scanners were given               *)
(*   pair    the two Scanner structs                                       *)
(*   runs    the tokens each of them has returned                          *)
(***************************************************************************)
VARIABLES buffer, pair, runs

scannerVars == <<scanner, history, iter, yielded>>

syntaxVars == <<position, file, returned, w>>

sharedVars == <<buffer, pair, runs>>

vars == <<scanner, history, iter, yielded, position, file, returned, w,
          buffer, pair, runs>>

\* No Position is in use.
SyntaxIdle ==
    /\ position = [Name |-> "", Offset |-> 0, Line |-> 0, StartCol |-> 0, EndCol |-> 0]
    /\ file = [contents |-> << >>, err |-> TRUE]
    /\ returned = << >>
    /\ w = << >>

\* No pair of scanners is in use.
SharedIdle ==
    /\ buffer = << >>
    /\ pair = << >>
    /\ runs = << >>

RECURSIVE SeqsUpTo(_, _)
SeqsUpTo(S, n) ==
    IF n = 0 THEN {<< >>}
    ELSE LET shorter == SeqsUpTo(S, n - 1)
         IN shorter \cup {Append(q, x) : q \in {r \in shorter : Len(r) = n - 1}, x \in S}

\* Buffers of the tests and of the cases the scanning rules distinguish,
\* longer than MaxLen.
Examples == {
    \* NAME='value' (TestBasics, single quoted var)
    <<78, 65, 77, 69, 61, 39, 118, 97, 108, 117, 101, 39>>,
    \* 'a\nb: a raw string left open over two lines
    <<39, 97, 10, 98>>,
    \* a 'bc: a raw string left open after a token
    <<97, 32, 39, 98, 99>>,
    \* '${("#\n'=: a raw string holding every other delimiter
    <<39, 36, 123, 40, 34, 35, 10, 39, 61>>,
    \* """a"b""": a multiline string with a lone quote inside
    <<34, 34, 34, 97, 34, 98, 34, 34, 34>>,
    \* export A=1 (TestBasics, export is ignored)
    <<101, 120, 112, 111, 114, 116, 32, 65, 61, 49>>,
    \* A=${B} (TestBasics, bracketed var expansion)
    <<65, 61, 36, 123, 66, 125>>,
    \* A=$(b c) (TestBasics, command expansion)
    <<65, 61, 36, 40, 98, 32, 99, 41>>,
    \* a=$ $: a dollar before a space and a dollar at the end of input
    <<97, 61, 36, 32, 36>>,
    \* "a\"b": a string with an escaped quote inside
    <<34, 97, 92, 34, 98, 34>>,
    \* """a\nb: a multiline string left open over two lines
    <<34, 34, 34, 97, 10, 98>>,
    \* export =1: export with no identifier after it
    <<101, 120, 112, 111, 114, 116, 32, 61, 49>>,
    \* exported=1: an identifier that starts with export
    <<101, 120, 112, 111, 114, 116, 101, 100, 61, 49>>,
    \* Axport: an identifier that ends with xport
    <<65, 120, 112, 111, 114, 116>>,
    \* A=/b#c d: a bare value holding a hash, before another token
    <<65, 61, 47, 98, 35, 99, 32, 100>>,
    \* #a b\nc: a comment, a newline and a token
    <<35, 97, 32, 98, 10, 99>>,
    \* A=$(b: a command expansion that is never closed
    <<65, 61, 36, 40, 98>>,
    \* A=\u00e9: a value that is one rune of two bytes
    <<65, 61, 195, 169>>
}

Inputs == SeqsUpTo(Alphabet, MaxLen) \cup Examples

\* "" is the name no valid Position has, "stdin" the documented one.
Names == {"", "stdin"}

Init ==
    /\ \E name \in Names, src \in Inputs, handler \in BOOLEAN :
          scanner = New(name, src, handler)
    /\ history = << >>
    /\ iter = "idle"
    /\ yielded = << >>
    /\ SyntaxIdle
    /\ SharedIdle

\* The caller may call Scan while the scanner has not hung, here until Scan
\* has returned EOF MaxEofs times.
CanScan ==
    /\ ~scanner.hung
    /\ Cardinality({i \in 1..Len(history) : history[i].tok.Kind = "EOF"}) < MaxEofs

\* The record of one Scan call from scanner state s with result r.
Call(s, r) ==
    [tok |-> r.tok, pos0 |-> s.pos, pos1 |-> r.s.pos,
     calls0 |-> Len(s.calls), calls1 |-> Len(r.s.calls),
     line1 |-> r.s.line, lineOffset1 |-> r.s.lineOffset]

\* A direct call of Scan.
DoScan ==
    /\ CanScan
    /\ LET r == Scan(scanner)
       IN /\ scanner' = r.s
          /\ history' = IF r.s.hung THEN history ELSE Append(history, Call(scanner, r))
    /\ UNCHANGED <<iter, yielded>>
    /\ UNCHANGED <<syntaxVars, sharedVars>>

\* AllStep as it would be if the loop went on after yielding Error or EOF.
AllStep_noStop(keep) ==
    /\ iter \in {"idle", "active"}
    /\ CanScan
    /\ UNCHANGED <<syntaxVars, sharedVars>>
    /\ LET r == Scan(scanner)
       IN /\ scanner' = r.s
          /\ IF r.s.hung
             THEN UNCHANGED <<history, iter, yielded>>
             ELSE /\ history' = Append(history, Call(scanner, r))
                  /\ yielded' = Append(yielded, r.tok)
                  /\ iter' = IF keep THEN "active" ELSE "stopped"

\* AllStep as it would be if the loop went on after yield returned false.
AllStep_afterStop(keep) ==
    /\ iter \in {"idle", "active", "stopped"}
    /\ CanScan
    /\ UNCHANGED <<syntaxVars, sharedVars>>
    /\ LET r == Scan(scanner)
       IN /\ scanner' = r.s
          /\ IF r.s.hung
             THEN UNCHANGED <<history, iter, yielded>>
             ELSE /\ history' = Append(history, Call(scanner, r))
                  /\ yielded' = Append(yielded, r.tok)
                  /\ iter' = IF Is(r.tok, {"Error", "EOF"}) THEN "done"
                             ELSE IF keep THEN "active" ELSE "stopped"

\* One iteration of the loop of All: Scan, then yield; keep is what yield
\* returns for a token that is neither Error nor EOF.
AllStep(keep) ==
    /\ iter \in {"idle", "active"}
    /\ CanScan
    /\ UNCHANGED <<syntaxVars, sharedVars>>
    /\ LET r == Scan(scanner)
       IN /\ scanner' = r.s
          /\ IF r.s.hung
             THEN UNCHANGED <<history, iter, yielded>>
             ELSE /\ history' = Append(history, Call(scanner, r))
                  /\ yielded' = Append(yielded, r.tok)
                  /\ iter' = IF Is(r.tok, {"Error", "EOF"}) THEN "done"
                             ELSE IF keep THEN "active" ELSE "stopped"

AllNext == \E keep \in BOOLEAN : AllStep(keep)

Next == DoScan \/ AllNext

Spec == Init /\ [][Next]_vars

\* The tokens returned by Scan so far, in order.
tokens == [i \in 1..Len(history) |-> history[i].tok]

(***************************************************************************)
(* Vocabulary of the properties.                                           *)
(***************************************************************************)
src == scanner.src

\* EOF and Error end the token stream.
Terminal(tok) == Is(tok, {"EOF", "Error"})

\* The byte at offset i of the buffer, -1 outside it.
Byte(i) == IF i >= 0 /\ i < Len(src) THEN src[i + 1] ELSE -1

\* The offset of the character the i-th Scan call dispatched on: the cursor
\* before the call, moved over the whitespace in front of the token.
DispatchAt(i) == skip([scanner EXCEPT !.pos = history[i].pos0], "unicode.IsSpace").pos

\* The offsets after offset q that hold byte b.
Later(q, b) == {e \in (q + 1)..(Len(src) - 1) : Byte(e) = b}

Min(S) == CHOOSE x \in S : \A y \in S : x <= y

\* The handler invocation made by the i-th Scan call (when it made one).
Reported(i) == scanner.calls[history[i].calls1]

ErrorCalls == {i \in 1..Len(history) : tokens[i].Kind = "Error"}

(***************************************************************************)
(* Properties.                                                             *)
(***************************************************************************)

\* C1: scanning terminates.  No Scan call loops forever (the scanner never
\* hangs), and a terminal token (EOF or Error) is returned after at most
\* len(src) + 1 Scan calls: if the first k tokens are all non-terminal then
\* k <= len(src).
C1_Terminates ==
    /\ ~scanner.hung
    /\ \A k \in 1..Len(history) :
          (\A i \in 1..k : ~Terminal(tokens[i])) => k <= Len(src)

\* The bound is met: a buffer of two bytes gave two tokens and then EOF.
C1_Witness ==
    /\ Len(src) = 2
    /\ Len(history) = 3
    /\ \A i \in 1..2 : ~Terminal(tokens[i])
    /\ tokens[3].Kind = "EOF"

\* C2: the sequence yielded by All holds no terminal token before its last
\* element, the iterator has returned ("done") exactly when the last token
\* it yielded is terminal, so a fully consumed All yields exactly one
\* terminal token, as its last.
C2_AllEndsAtTerminal ==
    /\ \A i \in 1..(Len(yielded) - 1) : ~Terminal(yielded[i])
    /\ iter = "done" <=> (Len(yielded) >= 1 /\ Terminal(yielded[Len(yielded)]))

\* All was consumed to its end and stopped at an Error after two tokens,
\* with input left to scan.
C2_Witness ==
    /\ iter = "done"
    /\ Len(yielded) = 3
    /\ yielded[3].Kind = "Error"
    /\ scanner.pos < Len(src)

\* C3: every token returned by Scan satisfies 0 <= Start <= End <= len(src).
C3_TokenRange ==
    \A i \in 1..Len(history) :
        /\ 0 <= tokens[i].Start
        /\ tokens[i].Start <= tokens[i].End
        /\ tokens[i].End <= Len(src)

\* A token of a quoted literal that starts inside the buffer and is not empty,
\* and a token that ends at the end of the buffer.
C3_Witness ==
    /\ \E i \in 1..Len(history) :
          /\ tokens[i].Kind \in {"RawString", "String"}
          /\ 0 < tokens[i].Start
          /\ tokens[i].Start < tokens[i].End
    /\ \E i \in 1..Len(history) :
          tokens[i].Kind # "EOF" /\ tokens[i].End = Len(src)

\* C4: tokens come in source order and do not overlap (each token starts at
\* or after the end of the token before it), and the cursor never moves
\* back: no Scan call leaves pos smaller than it found it, and each call
\* starts where the one before ended.
C4_SourceOrder ==
    /\ \A i \in 1..(Len(history) - 1) :
          /\ tokens[i + 1].Start >= tokens[i].End
          /\ history[i + 1].pos0 = history[i].pos1
    /\ \A i \in 1..Len(history) : history[i].pos1 >= history[i].pos0
    /\ Len(history) >= 1 => scanner.pos = history[Len(history)].pos1

\* Two non-terminal tokens with bytes between them, the second one quoted.
C4_Witness ==
    \E i \in 1..(Len(history) - 1) :
        /\ ~Terminal(tokens[i])
        /\ tokens[i + 1].Kind = "RawString"
        /\ tokens[i].End > tokens[i].Start
        /\ tokens[i + 1].Start > tokens[i].End

C6_HandlerOncePerError ==
    scanner.handler =>
        /\ \A i \in 1..Len(history) :
              history[i].calls1 - history[i].calls0 =
                  IF tokens[i].Kind = "Error" THEN 1 ELSE 0
        /\ Len(scanner.calls) = Cardinality(ErrorCalls)

\* Two Error tokens and a token of another kind were returned with a handler
\* installed.
C6_Witness ==
    /\ scanner.handler
    /\ Cardinality(ErrorCalls) = 2
    /\ Len(scanner.calls) = 2
    /\ \E i \in 1..Len(history) : tokens[i].Kind # "Error"

\* C7, original statement: the Position passed to the handler spans the Error token
\* returned by the same call: StartCol = 1 + (Start - lineOffset) and
\* EndCol = 1 + (End - lineOffset).
C7_PositionSpansError ==
    scanner.handler =>
        \A i \in ErrorCalls :
            /\ Reported(i).pos.StartCol = 1 + (tokens[i].Start - history[i].lineOffset1)
            /\ Reported(i).pos.EndCol = 1 + (tokens[i].End - history[i].lineOffset1)

\* The scanner after n Scan calls from s.
RECURSIVE ScanTimes(_, _)
ScanTimes(s, n) == IF n = 0 THEN s ELSE Scan(ScanTimes(s, n - 1)).s

\* A scanner over the same buffer, constructed with the other name and with
\* a handler exactly when this one has none.
Twin == New(CHOOSE n \in Names : n # scanner.name, src, ~scanner.handler)

\* C8: the handler and the name do not influence the tokens.  The token
\* returned by each Scan call (stated of the latest call in every reachable
\* state), and the cursor state it leaves, are those of a scanner over the
\* same buffer with the other name and the opposite choice of handler after
\* as many calls; in particular an Error token is returned without a
\* handler wherever one is returned with a handler.
C8_HandlerAndNameIrrelevant ==
    Len(history) >= 1 =>
        LET r == Scan(ScanTimes(Twin, Len(history) - 1))
        IN /\ tokens[Len(history)] = r.tok
           /\ <<r.s.start, r.s.pos, r.s.line, r.s.lineOffset>> =
              <<scanner.start, scanner.pos, scanner.line, scanner.lineOffset>>

\* A scanner without handler returned a token, an Error token and EOF, and
\* nothing was reported.
C8_Witness ==
    /\ ~scanner.handler
    /\ scanner.calls = << >>
    /\ \E i \in ErrorCalls : i > 1 /\ Len(history) > i

\* The Scan calls that dispatched on a single quote with a closing quote
\* somewhere after it, and those with none.
RawTerminated ==
    {i \in 1..Len(history) :
        Byte(DispatchAt(i)) = SQUOTE /\ Later(DispatchAt(i), SQUOTE) # {}}

RawUnterminated ==
    {i \in 1..Len(history) :
        Byte(DispatchAt(i)) = SQUOTE /\ Later(DispatchAt(i), SQUOTE) = {}}

\* C9: a Scan call that meets a single quote with a later single quote
\* returns the RawString token of the bytes strictly between the opening
\* quote and the next quote, whatever they are, and leaves the cursor just
\* after the closing quote, so the next token starts there or later; no
\* other call returns a RawString; NAME='value' scans as Ident(0,4),
\* Eq(4,5), RawString(6,11), EOF(12,12).
C9_RawStringContent ==
    /\ \A i \in RawTerminated :
          LET q == DispatchAt(i)
              e == Min(Later(q, SQUOTE))
          IN /\ tokens[i] = Token("RawString", q + 1, e)
             /\ history[i].pos1 = e + 1
             /\ i < Len(history) => tokens[i + 1].Start >= e + 1
    /\ \A i \in 1..Len(history) :
          tokens[i].Kind = "RawString" => i \in RawTerminated
    /\ (src = <<78, 65, 77, 69, 61, 39, 118, 97, 108, 117, 101, 39>> /\ Len(history) >= 4) =>
          SubSeq(tokens, 1, 4) = <<Token("Ident", 0, 4), Token("Eq", 4, 5),
                                   Token("RawString", 6, 11), Token("EOF", 12, 12)>>

\* The raw string of '${("#\n'= was returned, and the token after it.
C9_Witness ==
    /\ src = <<39, 36, 123, 40, 34, 35, 10, 39, 61>>
    /\ Len(history) = 2
    /\ tokens[1] = Token("RawString", 1, 7)
    /\ tokens[2].Kind = "Eq"

\* C10: a Scan call that meets a single quote with no single quote after it
\* returns an Error token, and an installed handler is invoked exactly once
\* by that call, with the message "unterminated string literal".
C10_UnterminatedRawString ==
    \A i \in RawUnterminated :
        /\ tokens[i].Kind = "Error"
        /\ scanner.handler =>
              /\ history[i].calls1 = history[i].calls0 + 1
              /\ Reported(i).msg = Msg("unterminated string literal")

\* The raw string of 'a\nb, left open over two lines, was reported.
C10_Witness ==
    /\ src = <<39, 97, 10, 98>>
    /\ scanner.handler
    /\ RawUnterminated = {1}
    /\ Len(scanner.calls) = 1

(***************************************************************************)
(* Double-quoted literals.                                                 *)
(***************************************************************************)
\* The Scan calls that dispatched on a double quote, those among them that
\* met three double quotes in a row, and the others.
StringCalls == {i \in 1..Len(history) : Byte(DispatchAt(i)) = DQUOTE}

TripleCalls ==
    {i \in StringCalls :
        Byte(DispatchAt(i) + 1) = DQUOTE /\ Byte(DispatchAt(i) + 2) = DQUOTE}

SingleCalls == StringCalls \ TripleCalls

\* The offset of the first byte after the opening delimiter of call i.
BodyAt(i) == IF i \in TripleCalls THEN DispatchAt(i) + 3 ELSE DispatchAt(i) + 1

\* The offsets at or after b that hold a double quote.
QuotesFrom(b) == {e \in b..(Len(src) - 1) : Byte(e) = DQUOTE}

\* Three double quotes start at offset e.
TripleAt(e) == Byte(e) = DQUOTE /\ Byte(e + 1) = DQUOTE /\ Byte(e + 2) = DQUOTE

\* The byte at offset e is escaped: an odd number of backslashes (byte 92)
\* precede it.
RECURSIVE BackslashesBefore(_)
BackslashesBefore(e) ==
    IF Byte(e - 1) = 92 THEN 1 + BackslashesBefore(e - 1) ELSE 0

Escaped(e) == BackslashesBefore(e) % 2 = 1

\* The closing delimiters of call i: for three opening quotes the offsets in
\* the body where three quotes start, for one the unescaped quotes.
ClosersOf(i) ==
    IF i \in TripleCalls THEN {e \in QuotesFrom(BodyAt(i)) : TripleAt(e)}
    ELSE {e \in QuotesFrom(BodyAt(i)) : ~Escaped(e)}

\* C11: a Scan call that meets a double-quoted literal with a closing
\* delimiter (one unescaped quote, or three quotes for a literal opened by
\* three) returns one String token that spans exactly the text between the
\* opening and the closing delimiter, whatever it holds, and leaves the
\* cursor after the whole closing delimiter, so the next token starts there
\* or later.
C11_StringContent ==
    \A i \in StringCalls :
        ClosersOf(i) # {} =>
            LET e == Min(ClosersOf(i))
                after == IF i \in TripleCalls THEN e + 3 ELSE e + 1
            IN /\ tokens[i] = Token("String", BodyAt(i), e)
               /\ history[i].pos1 = after
               /\ i < Len(history) => tokens[i + 1].Start >= after

\* C12: the String token of a literal opened by one double quote does not
\* end at an escaped quote (a quote preceded by a backslash).
C12_EscapedQuoteKept ==
    \A i \in SingleCalls :
        tokens[i].Kind = "String" => ~Escaped(tokens[i].End)

\* C13: in a literal opened by three double quotes, a quote that is not
\* followed by two more neither ends the literal nor is an error: the call
\* returns Error only when no three quotes in a row follow the opening, and
\* """a"b""" scans as the String token of a"b.
C13_LoneQuoteInMultiline ==
    /\ \A i \in TripleCalls : tokens[i].Kind = "Error" => ClosersOf(i) = {}
    /\ (src = <<34, 34, 34, 97, 34, 98, 34, 34, 34>> /\ Len(history) >= 1) =>
          tokens[1] = Token("String", 3, 6)

\* C14: a double-quoted literal that is not closed gives an Error token,
\* reported as "unterminated string literal" when no double quote follows
\* the opening delimiter (of one quote or of three), and as "unterminated
\* multiline string" when, after three opening quotes, the next double
\* quote does not start three quotes in a row.
C14_UnterminatedMessages ==
    \A i \in StringCalls :
        /\ QuotesFrom(BodyAt(i)) = {} =>
              /\ tokens[i].Kind = "Error"
              /\ scanner.handler =>
                    /\ history[i].calls1 = history[i].calls0 + 1
                    /\ Reported(i).msg = Msg("unterminated string literal")
        /\ (i \in TripleCalls /\ QuotesFrom(BodyAt(i)) # {}
                /\ ~TripleAt(Min(QuotesFrom(BodyAt(i))))) =>
              /\ tokens[i].Kind = "Error"
              /\ scanner.handler =>
                    /\ history[i].calls1 = history[i].calls0 + 1
                    /\ Reported(i).msg = Msg("unterminated multiline string")

\* Both messages were reported: """a"b""" stopped at its lone quote, and
\* """a\nb ran to the end of input.
C14_Witness ==
    /\ scanner.handler
    /\ Len(history) >= 1
    /\ \/ /\ src = <<34, 34, 34, 97, 34, 98, 34, 34, 34>>
          /\ scanner.calls[1].msg = Msg("unterminated multiline string")
          /\ Len(history) = 2
       \/ /\ src = <<34, 34, 34, 97, 10, 98>>
          /\ scanner.calls[1].msg = Msg("unterminated string literal")
          /\ Len(history) = 2

(***************************************************************************)
(* Expansions and the export keyword.                                      *)
(***************************************************************************)
\* The kinds of the tokens returned so far, in order.
kinds == [i \in 1..Len(history) |-> tokens[i].Kind]

\* C15: every Scan call that dispatches on a '$' returns a Dollar token of
\* that one byte and leaves the cursor right after it, and A=${B} scans as
\* Ident, Eq, Dollar, OpenBrace, Ident, CloseBrace, EOF.
C15_DecomposedExpansion ==
    /\ \A i \in 1..Len(history) :
          Byte(DispatchAt(i)) = DOLLAR =>
              /\ tokens[i] = Token("Dollar", DispatchAt(i), DispatchAt(i) + 1)
              /\ history[i].pos1 = DispatchAt(i) + 1
    /\ (src = <<65, 61, 36, 123, 66, 125>> /\ Len(history) >= 1
            /\ tokens[Len(history)].Kind = "EOF") =>
          kinds = <<"Ident", "Eq", "Dollar", "OpenBrace", "Ident",
                    "CloseBrace", "EOF">>

export == <<101, 120, 112, 111, 114, 116>>    \* "export"

\* The buffer holds the text export at offset q, followed by whitespace.
ExportAt(q) ==
    /\ \A k \in 1..Len(export) : Byte(q + k - 1) = export[k]
    /\ IsSpace(DecodeRune(Byte(q + Len(export)), Byte(q + Len(export) + 1)).char)

\* The length of the export keyword at the start of the buffer and of the
\* whitespace after it.
ExportPrefix ==
    skip([scanner EXCEPT !.pos = Len(export)], "unicode.IsSpace").pos

\* The tokens of the first n Scan calls of a scanner over text, every offset
\* moved by d.
Shifted(text, d, n) ==
    [i \in 1..n |->
        LET tok == Scan(ScanTimes(New(scanner.name, text, scanner.handler),
                                  i - 1)).tok
        IN Token(tok.Kind, tok.Start + d, tok.End + d)]

\* C16: when the buffer is export, whitespace and a text T, the tokens
\* returned are those of a scanner over T alone, every offset moved by the
\* length of the discarded prefix.
C16_ExportIgnored ==
    ExportAt(0) =>
        tokens = Shifted(SubSeq(src, ExportPrefix + 1, Len(src)),
                         ExportPrefix, Len(history))

\* The end of the run of identifier characters that starts at offset q.
IdentEnd(q) ==
    Min({e \in q..Len(src) : e = Len(src) \/ ~isIdent(Byte(e))})

\* C17: a Scan call that dispatches on an identifier character which does
\* not start the text export followed by whitespace returns one Ident token
\* covering the whole run of identifier characters from that character on,
\* nothing discarded.
C17_ExportOnlyLiteral ==
    \A i \in 1..Len(history) :
        LET q == DispatchAt(i)
        IN (q < Len(src) /\ isIdent(Byte(q)) /\ ~ExportAt(q)) =>
               /\ tokens[i] = Token("Ident", q, IdentEnd(q))
               /\ history[i].pos1 = IdentEnd(q)

(***************************************************************************)
(* Bare values, identifiers after '=', comments.                           *)
(***************************************************************************)
\* The rune at offset q, or eof.
RuneAt(q) == IF q >= Len(src) THEN eof ELSE DecodeRune(Byte(q), Byte(q + 1)).char

\* The end of the run of non-whitespace runes that starts at offset q.
RECURSIVE ValueEnd(_)
ValueEnd(q) ==
    IF q >= Len(src) \/ IsSpace(RuneAt(q)) THEN q
    ELSE ValueEnd(q + DecodeRune(Byte(q), Byte(q + 1)).width)

\* The Scan calls that start right after an Eq token, no whitespace between.
AfterEq == {i \in 2..Len(history) :
               tokens[i - 1].Kind = "Eq" /\ DispatchAt(i) = tokens[i - 1].End}

\* C18, original statement: a Scan call that starts right after an Eq token
\* on a character that opens neither a quoted literal, an expansion, a
\* comment nor another '=' returns one String token covering the whole run
\* of non-whitespace characters up to the next whitespace or the end of
\* input.
C18_BareValueOneString ==
    \A i \in AfterEq :
        LET q == DispatchAt(i)
        IN RuneAt(q) \notin {eof, SQUOTE, DQUOTE, DOLLAR, HASH, EQUALS} =>
               tokens[i] = Token("String", q, ValueEnd(q))

\* C18, amended statement: a Scan call (after an Eq token or anywhere else)
\* that dispatches on a character which is not whitespace, '#', '=', a
\* quote, '$' or an identifier character returns one String token covering
\* the whole run of non-whitespace characters from that character up to the
\* next whitespace or the end of input, '#', '=', quotes and '$' inside the
\* run included; a call right after an Eq token on an identifier character
\* returns an Ident token, which holds identifier characters only.
C18_BareValueByFirstChar ==
    /\ \A i \in 1..Len(history) :
          LET q == DispatchAt(i)
          IN (RuneAt(q) \notin {eof, SQUOTE, DQUOTE, DOLLAR, HASH, EQUALS}
                  /\ ~isIdent(RuneAt(q))) =>
                 /\ tokens[i] = Token("String", q, ValueEnd(q))
                 /\ history[i].pos1 = ValueEnd(q)
    /\ \A i \in AfterEq :
          isIdent(RuneAt(DispatchAt(i))) =>
              /\ tokens[i].Kind = "Ident"
              /\ \A k \in tokens[i].Start..(tokens[i].End - 1) : isIdent(Byte(k))

\* A=/b#c d was scanned: the value /b#c is one String token, and the token
\* after it is the Ident d.
C18_Witness ==
    /\ src = <<65, 61, 47, 98, 35, 99, 32, 100>>
    /\ Len(history) = 4
    /\ tokens[2].Kind = "Eq"
    /\ tokens[3] = Token("String", 2, 6)
    /\ tokens[4] = Token("Ident", 7, 8)

\* C19: the token a Scan call returns depends only on the bytes from the
\* cursor on.  Each call (stated of the latest call in every reachable
\* state) returns the token, and leaves the cursor, that the first call of
\* a fresh scanner over the rest of the buffer returns and leaves, offsets
\* counted from the cursor; so a call that dispatches on an identifier
\* character right after an Eq token returns an Ident, as before '='.
C19_ReactiveToNextChar ==
    Len(history) >= 1 =>
        LET i == Len(history)
            p == history[i].pos0
            r == Scan(New(scanner.name, SubSeq(src, p + 1, Len(src)),
                          scanner.handler))
        IN /\ tokens[i] = Token(r.tok.Kind, r.tok.Start + p, r.tok.End + p)
           /\ history[i].pos1 = r.s.pos + p
           /\ (i \in AfterEq /\ isIdent(RuneAt(DispatchAt(i)))) =>
                  tokens[i].Kind = "Ident"

\* The latest call returned a non-empty Ident that starts where the Eq
\* token before it ends.
C19_Witness ==
    /\ Len(history) \in AfterEq
    /\ history[Len(history)].pos0 > 0
    /\ tokens[Len(history)].Kind = "Ident"
    /\ tokens[Len(history)].Start = tokens[Len(history) - 1].End
    /\ tokens[Len(history)].End > tokens[Len(history)].Start

\* The end of the line that holds offset q: the offset of the first newline
\* after q, or the end of the buffer.
LineEnd(q) == Min(Later(q, NL) \cup {Len(src)})

\* C20: a Scan call that dispatches on a '#' returns a Comment token from
\* the '#' up to, not including, the next newline or the end of input, and
\* leaves the cursor there; every Comment token starts at a '#', holds no
\* newline, and the Scan call after it starts at its end and dispatches
\* behind the newline that ended it.
C20_CommentToEndOfLine ==
    /\ \A i \in 1..Len(history) :
          Byte(DispatchAt(i)) = HASH =>
              /\ tokens[i] = Token("Comment", DispatchAt(i), LineEnd(DispatchAt(i)))
              /\ history[i].pos1 = LineEnd(DispatchAt(i))
    /\ \A i \in 1..Len(history) :
          tokens[i].Kind = "Comment" =>
              /\ Byte(tokens[i].Start) = HASH
              /\ \A k \in tokens[i].Start..(tokens[i].End - 1) : Byte(k) # NL
              /\ i < Len(history) =>
                    /\ history[i + 1].pos0 = tokens[i].End
                    /\ Byte(tokens[i].End) = NL => DispatchAt(i + 1) > tokens[i].End

\* #a b, a newline and c were scanned: the comment stops before the
\* newline and the Ident c follows.
C20_Witness ==
    /\ src = <<35, 97, 32, 98, 10, 99>>
    /\ tokens = <<Token("Comment", 0, 4), Token("Ident", 5, 6)>>
    /\ history[2].pos0 = 4

(***************************************************************************)
(* Eq and EOF tokens.                                                      *)
(***************************************************************************)
\* C21: every Eq token is one byte wide and lies on an '=' byte, whatever
\* follows that byte, and the buffer = scans as Eq(0,1), EOF(1,1).
C21_EqOneByte ==
    /\ \A i \in 1..Len(history) :
          tokens[i].Kind = "Eq" =>
              /\ tokens[i].End = tokens[i].Start + 1
              /\ Byte(tokens[i].Start) = EQUALS
    /\ \A i \in 1..Len(history) :
          Byte(DispatchAt(i)) = EQUALS =>
              tokens[i] = Token("Eq", DispatchAt(i), DispatchAt(i) + 1)
    /\ (src = <<EQUALS>> /\ Len(history) >= 2) =>
          SubSeq(tokens, 1, 2) = <<Token("Eq", 0, 1), Token("EOF", 1, 1)>>

\* An Eq token was returned for an '=' that another non-whitespace byte
\* follows directly.
C21_Witness ==
    \E i \in 1..Len(history) :
        /\ tokens[i].Kind = "Eq"
        /\ tokens[i].End < Len(src)
        /\ ~IsSpace(RuneAt(tokens[i].End))

\* C22: every EOF token is empty and lies at the end of the buffer.
C22_EofAtEnd ==
    \A i \in 1..Len(history) :
        tokens[i].Kind = "EOF" =>
            tokens[i].Start = Len(src) /\ tokens[i].End = Len(src)

\* EOF was returned for a buffer that ends in whitespace after a token.
C22_Witness ==
    /\ Len(src) >= 2
    /\ src[Len(src)] = SP
    /\ Len(history) >= 2
    /\ tokens[Len(history)].Kind = "EOF"
    /\ tokens[Len(history) - 1].End < Len(src)

(***************************************************************************)
(* Abandoned iteration, composite expansions, progress.                    *)
(***************************************************************************)
\* While the iterator is stopped and no direct call was made since, the
\* scanner is as the Scan call of the last token yielded left it.
StoppedScannerAsLeft ==
    (iter = "stopped" /\ Len(history) >= 1
        /\ yielded[Len(yielded)] = tokens[Len(history)]) =>
        /\ ~Terminal(yielded[Len(yielded)])
        /\ <<scanner.start, scanner.pos, scanner.line, scanner.lineOffset>> =
              <<history[Len(history)].pos1, history[Len(history)].pos1,
                history[Len(history)].line1, history[Len(history)].lineOffset1>>
        /\ Len(scanner.calls) = history[Len(history)].calls1

\* C27: once yield has returned false after a token that is neither Error
\* nor EOF, the iterator takes no step: the scanner is as the Scan call of
\* that token left it, and every step from then on leaves the iterator
\* stopped and yields nothing, so the scanner and the handler's invocations
\* change only by a direct Scan call of the caller.
C27_AbandonedIterationIsInert ==
    /\ []StoppedScannerAsLeft
    /\ [][iter = "stopped" =>
             /\ iter' = "stopped"
             /\ yielded' = yielded
             /\ scanner' # scanner => DoScan]_vars

\* The iterator was abandoned after a non-terminal token while text that
\* gives an Error was still ahead, and the handler has not been called.
C27_Witness ==
    /\ iter = "stopped"
    /\ scanner.handler
    /\ Len(yielded) >= 1
    /\ ~Terminal(yielded[Len(yielded)])
    /\ scanner.pos < Len(src)
    /\ Scan(scanner).tok.Kind = "Error"
    /\ scanner.calls = << >>

\* The Scan calls that dispatched on a '$'.
ExpansionCalls == {i \in 1..Len(history) : Byte(DispatchAt(i)) = DOLLAR}

ReportedMsg(i, msg) ==
    scanner.handler =>
        /\ history[i].calls1 = history[i].calls0 + 1
        /\ Reported(i).msg = msg

\* C29: a Scan call that dispatches on a '$' returns an Error token,
\* reported as "unexpected char", when the end of input or a character
\* other than '{', '(' and the identifier characters follows the '$';
\* reported as "unterminated variable expansion" when '{' follows and no
\* '}' comes after it; reported as "unterminated command expansion" when
\* '(' follows and no ')' comes after it.
C29_MalformedExpansion ==
    \A i \in ExpansionCalls :
        LET q == DispatchAt(i)
            c == RuneAt(q + 1)
        IN /\ (c \notin {LBRACE, LPAREN} /\ ~isIdent(c)) =>
                 /\ tokens[i].Kind = "Error"
                 /\ ReportedMsg(i, Sprintf("unexpected char %q, '$' must be followed by one of '(' or '{'", c))
           /\ (c = LBRACE /\ Later(q + 1, RBRACE) = {}) =>
                 /\ tokens[i].Kind = "Error"
                 /\ ReportedMsg(i, Msg("unterminated variable expansion"))
           /\ (c = LPAREN /\ Later(q + 1, RPAREN) = {}) =>
                 /\ tokens[i].Kind = "Error"
                 /\ ReportedMsg(i, Msg("unterminated command expansion"))

\* a=$ $ was scanned with a handler: the '$' before the space and the '$'
\* at the end of input each gave an Error token and a report.
C29_Witness ==
    /\ src = <<97, 61, 36, 32, 36>>
    /\ scanner.handler
    /\ Len(history) = 4
    /\ tokens[3].Kind = "Error"
    /\ tokens[4].Kind = "Error"
    /\ Len(scanner.calls) = 2
    /\ scanner.calls[2].msg.args = <<eof>>

\* C30: every Scan call that returns a token other than EOF moves the
\* cursor forward, and a Scan call made with the cursor at the end of the
\* buffer returns EOF and leaves start, pos, line, lineOffset and the
\* handler's invocations as they were.
C30_ProgressAndIdempotentEof ==
    [][history' # history =>
          LET tok == history'[Len(history')].tok
          IN /\ tok.Kind # "EOF" => scanner'.pos > scanner.pos
             /\ scanner.pos = Len(src) =>
                   /\ tok.Kind = "EOF"
                   /\ scanner' = scanner]_vars

\* Scan returned EOF twice in a row after another token.
C30_Witness ==
    /\ Len(history) >= 3
    /\ tokens[Len(history)].Kind = "EOF"
    /\ tokens[Len(history) - 1].Kind = "EOF"
    /\ tokens[Len(history) - 2].Kind # "EOF"

(***************************************************************************)
(* Package syntax: Position and PrettyConsoleHandler.                      *)
(***************************************************************************)
\* IsValid as it would be without the rule that EndCol is not before
\* StartCol.
IsValid_noRange(p) ==
    IF p.Name = "" \/ p.Line < 1 \/ p.StartCol < 1 \/ p.EndCol < 1
    THEN FALSE
    ELSE TRUE

IsValid(p) ==
    IF p.Name = "" \/ p.Line < 1 \/ p.StartCol < 1 \/ p.EndCol < 1
          \/ (p.EndCol >= 1 /\ p.EndCol < p.StartCol)
    THEN FALSE
    ELSE TRUE

\* fmt.Sprintf of a position: the format, the name put in for %s or %q and
\* the numbers put in for each %d, in order.
SprintfPos(format, name, numbers) ==
    [format |-> format, name |-> name, numbers |-> numbers]

\* String as it would be if a range were printed by its start column only.
String_pointOnly(p) ==
    IF ~IsValid(p)
    THEN SprintfPos("BadPosition: {Name: %q, Line: %d, StartCol: %d, EndCol: %d}",
                    p.Name, <<p.Line, p.StartCol, p.EndCol>>)
    ELSE SprintfPos("%s:%d:%d", p.Name, <<p.Line, p.StartCol>>)

String(p) ==
    IF ~IsValid(p)
    THEN SprintfPos("BadPosition: {Name: %q, Line: %d, StartCol: %d, EndCol: %d}",
                    p.Name, <<p.Line, p.StartCol, p.EndCol>>)
    ELSE IF p.StartCol = p.EndCol
    THEN SprintfPos("%s:%d:%d", p.Name, <<p.Line, p.StartCol>>)
    ELSE SprintfPos("%s:%d:%d-%d", p.Name, <<p.Line, p.StartCol, p.EndCol>>)

\* bytes.Split(s, sep) for a separator of one byte: the pieces of s between
\* the separators, one piece more than there are separators.
RECURSIVE Split(_, _)
Split(s, sep) ==
    IF \A k \in 1..Len(s) : s[k] # sep THEN <<s>>
    ELSE LET k == Min({j \in 1..Len(s) : s[j] = sep})
         IN <<SubSeq(s, 1, k - 1)>> \o Split(SubSeq(s, k + 1, Len(s)), sep)

max(a, b) == IF a > b THEN a ELSE b

contextLines == 3

\* len(fmt.Sprintf("%d | ", i)) for i >= 0.
RECURSIVE marginLen(_)
marginLen(i) == IF i < 10 THEN 4 ELSE 1 + marginLen(i \div 10)

\* The loop over the lines of the file, from the line of index i on; out is
\* what was written before.  strings.Repeat panics on a negative count,
\* which ends the handler.
RECURSIVE printLines(_, _, _, _, _, _)
printLines(out, lines, i, pos, startLine, endLine) ==
    IF i > Len(lines) THEN out
    ELSE IF ~(i >= startLine /\ i <= endLine)
    THEN printLines(out, lines, i + 1, pos, startLine, endLine)
    ELSE LET line == Append(out, [kind |-> "line", number |-> i, text |-> lines[i]])
             indent == marginLen(i) + pos.StartCol - 1
             width == pos.EndCol - pos.StartCol
         IN IF i # pos.Line
            THEN printLines(line, lines, i + 1, pos, startLine, endLine)
            ELSE IF indent < 0 \/ width < 0
            THEN Append(line, [kind |-> "panic"])
            ELSE printLines(Append(line, [kind |-> "underline", indent |-> indent,
                                          width |-> width]),
                            lines, i + 1, pos, startLine, endLine)

\* The handler PrettyConsoleHandler returns, called with pos and msg: what
\* the writer holds afterwards, out being what it held before; read is what
\* os.ReadFile(pos.Name) returns.
PrettyConsoleHandler(out, read, pos, msg) ==
    LET head == Append(out, [kind |-> "header", pos |-> String(pos), msg |-> msg])
    IN IF read.err THEN Append(head, [kind |-> "unable"])
       ELSE LET lines == Split(read.contents, NL)
                startLine == max(pos.Line - contextLines, 0)
                endLine == max(pos.Line + contextLines, Len(lines))
            IN printLines(head, lines, 1, pos, startLine, endLine)

\* The Position values and the files of the model.
Positions ==
    [Name : Names, Offset : 0..MaxOffset, Line : 0..MaxLine,
     StartCol : 0..MaxCol, EndCol : 0..MaxCol]

\* Files of lines of 'a': os.ReadFile of the empty name fails, that of
\* another name fails or returns the contents.
Files(name) ==
    {[contents |-> << >>, err |-> TRUE]} \cup
    (IF name = "" THEN {}
     ELSE {[contents |-> c, err |-> FALSE] : c \in SeqsUpTo({NL, 97}, MaxFile)})

ScannerIdle ==
    /\ scanner = New("", << >>, FALSE)
    /\ history = << >>
    /\ iter = "idle"
    /\ yielded = << >>

SyntaxInit ==
    /\ \E p \in Positions : \E f \in Files(p.Name) :
          /\ position = p
          /\ file = f
    /\ returned = << >>
    /\ w = << >>
    /\ ScannerIdle
    /\ SharedIdle

\* The operations already called.
Called == {returned[k].op : k \in 1..Len(returned)}

CallIsValid ==
    /\ "IsValid" \notin Called
    /\ returned' = Append(returned, [op |-> "IsValid", value |-> IsValid(position)])
    /\ UNCHANGED <<position, file, w, scannerVars, sharedVars>>

CallString ==
    /\ "String" \notin Called
    /\ returned' = Append(returned, [op |-> "String", value |-> String(position)])
    /\ UNCHANGED <<position, file, w, scannerVars, sharedVars>>

\* The handler is called once, as by Scanner.error.
CallHandler ==
    /\ w = << >>
    /\ w' = PrettyConsoleHandler(w, file, position, Msg("unterminated string literal"))
    /\ UNCHANGED <<position, file, returned, scannerVars, sharedVars>>

SyntaxNext == CallIsValid \/ CallString \/ CallHandler

SyntaxSpec == SyntaxInit /\ [][SyntaxNext]_vars

\* The results of the calls of op made so far.
Results(op) == {returned[k].value : k \in {j \in 1..Len(returned) : returned[j].op = op}}

\* The position breaks one of the rules of a valid position.
Invalid ==
    \/ position.Name = ""
    \/ position.Line < 1
    \/ position.StartCol < 1
    \/ position.EndCol < 1
    \/ position.EndCol < position.StartCol

\* C23: IsValid returns false exactly when Name is empty, Line < 1,
\* StartCol < 1, EndCol < 1 or EndCol < StartCol, true for every other
\* Position, and the same for every Offset.
C23_IsValidRules ==
    /\ Results("IsValid") \subseteq {~Invalid}
    /\ \A o \in 0..MaxOffset :
          IsValid([position EXCEPT !.Offset = o]) = ~Invalid

\* IsValid returned false for a position that breaks only the rule that
\* EndCol is not before StartCol.
C23_Witness ==
    /\ Results("IsValid") = {FALSE}
    /\ position.Name # ""
    /\ position.Line >= 1
    /\ position.EndCol >= 1
    /\ position.EndCol < position.StartCol

\* C24: String returns the BadPosition placeholder for an invalid position,
\* name:line:col for a valid one with StartCol = EndCol and
\* name:line:start-end for a valid one with StartCol < EndCol, and every
\* Position is of exactly one of the three sorts.
C24_StringForms ==
    /\ Results("String") \subseteq
          {IF Invalid
           THEN SprintfPos("BadPosition: {Name: %q, Line: %d, StartCol: %d, EndCol: %d}",
                           position.Name,
                           <<position.Line, position.StartCol, position.EndCol>>)
           ELSE IF position.StartCol = position.EndCol
           THEN SprintfPos("%s:%d:%d", position.Name,
                           <<position.Line, position.StartCol>>)
           ELSE SprintfPos("%s:%d:%d-%d", position.Name,
                           <<position.Line, position.StartCol, position.EndCol>>)}
    /\ Cardinality({b \in {<<1, Invalid>>,
                           <<2, ~Invalid /\ position.StartCol = position.EndCol>>,
                           <<3, ~Invalid /\ position.StartCol < position.EndCol>>} :
                       b[2]}) = 1

\* String returned the range form.
C24_Witness ==
    /\ position.StartCol < position.EndCol
    /\ \E s \in Results("String") : s.format = "%s:%d:%d-%d"

\* The numbers of the lines of the file the handler wrote.
Printed == {w[k].number : k \in {j \in 1..Len(w) : w[j].kind = "line"}}

\* C25: called with a valid position, the handler prints only lines whose
\* number lies within three before and three after position.Line, at most
\* seven lines, whatever the length of the file.
C25_FixedWindow ==
    IsValid(position) =>
        /\ \A n \in Printed :
              n >= position.Line - contextLines /\ n <= position.Line + contextLines
        /\ Cardinality(Printed) <= 2 * contextLines + 1

(***************************************************************************)
(* Two scanners over one byte slice.  New stores the slice it is given     *)
(* without copying it, so both structs refer to the same bytes: a Scan     *)
(* call of either reads the bytes as the calls before it left them, and    *)
(* what it leaves is what the other reads next.                            *)
(***************************************************************************)
Scanners == {1, 2}

SharedInit ==
    /\ \E b \in Inputs, handler \in BOOLEAN :
          /\ buffer = b
          /\ pair = [k \in Scanners |-> New("stdin", b, handler)]
    /\ runs = [k \in Scanners |-> << >>]
    /\ ScannerIdle
    /\ SyntaxIdle

\* Scanner k may be called as the single scanner of Spec may.
CanScanOf(k) ==
    /\ ~pair[k].hung
    /\ Cardinality({i \in 1..Len(runs[k]) : runs[k][i].Kind = "EOF"}) < MaxEofs

\* A Scan call on scanner k.
ScanOf(k) ==
    /\ CanScanOf(k)
    /\ LET r == Scan([pair[k] EXCEPT !.src = buffer])
       IN /\ pair' = [pair EXCEPT ![k] = r.s]
          /\ buffer' = r.s.src
          /\ runs' = [runs EXCEPT ![k] = IF r.s.hung THEN @ ELSE Append(@, r.tok)]
    /\ UNCHANGED <<scannerVars, syntaxVars>>

SharedNext == \E k \in Scanners : ScanOf(k)

SharedSpec == SharedInit /\ [][SharedNext]_vars

\* The tokens of the first n Scan calls of a scanner that runs alone over
\* the bytes b.
Alone(b, handler, n) ==
    [i \in 1..n |-> Scan(ScanTimes(New("stdin", b, handler), i - 1)).tok]

\* C26: under every interleaving of the Scan calls of two scanners over
\* the same bytes, the tokens each has returned are those it returns when
\* it runs alone, its cursor state is that of the run alone, and no call
\* changes the bytes.
C26_ScannersIndependent ==
    /\ [](\A k \in Scanners :
             /\ runs[k] = Alone(buffer, pair[k].handler, Len(runs[k]))
             /\ pair[k] = ScanTimes(New("stdin", buffer, pair[k].handler),
                                    Len(runs[k])))
    /\ [][buffer' = buffer]_vars

\* Both scanners are in the middle of the buffer at different places, the
\* first ahead of the second, which has overtaken nothing.
C26_Witness ==
    /\ Len(runs[1]) >= 2
    /\ Len(runs[2]) >= 1
    /\ pair[1].pos > pair[2].pos
    /\ pair[1].pos < Len(buffer)
    /\ ~Terminal(runs[1][Len(runs[1])])

(***************************************************************************)
(* Line bookkeeping, identifiers, reported positions, the last case of     *)
(* Scan.                                                                   *)
(***************************************************************************)
\* The offsets before offset q that hold a newline.
NewlinesBefore(q) == {k \in 0..(q - 1) : Byte(k) = NL}

\* The number of the line that holds offset q, and the offset where that
\* line starts.
LineOf(q) == 1 + Cardinality(NewlinesBefore(q))

LineStart(q) ==
    IF NewlinesBefore(q) = {} THEN 0
    ELSE 1 + (CHOOSE k \in NewlinesBefore(q) : \A j \in NewlinesBefore(q) : j <= k)

\* C31: in every state of the scanner, and after every Scan call, line is
\* one more than the number of newlines before the cursor and lineOffset is
\* the offset after the last of them (0 when there is none), so lineOffset
\* is never after the cursor.
C31_LineBookkeeping ==
    /\ scanner.line = LineOf(scanner.pos)
    /\ scanner.lineOffset = LineStart(scanner.pos)
    /\ scanner.lineOffset <= scanner.pos
    /\ \A i \in 1..Len(history) :
          /\ history[i].line1 = LineOf(history[i].pos1)
          /\ history[i].lineOffset1 = LineStart(history[i].pos1)

\* The latest token holds a newline inside it, after its opening
\* delimiter was looked at with take, and the cursor is on a later line.
C31_Witness ==
    /\ Len(history) >= 1
    /\ Byte(DispatchAt(Len(history))) = DQUOTE
    /\ \E k \in NewlinesBefore(scanner.pos) :
          tokens[Len(history)].Start <= k /\ k < tokens[Len(history)].End
    /\ scanner.line = 2
    /\ scanner.lineOffset > 0
    /\ scanner.lineOffset < scanner.pos

\* C32: every Ident token is a non-empty run of identifier characters that
\* ends where the run ends: End > Start, every byte of it is a letter, a
\* digit, '_' or '-', and the byte at End, if there is one, is none of
\* these.
C32_IdentNonEmptyMaximal ==
    \A i \in 1..Len(history) :
        tokens[i].Kind = "Ident" =>
            /\ tokens[i].End > tokens[i].Start
            /\ \A k \in tokens[i].Start..(tokens[i].End - 1) : isIdent(Byte(k))
            /\ tokens[i].End < Len(src) => ~isIdent(Byte(tokens[i].End))

\* C33: for a scanner with a non-empty name, every Position passed to the
\* handler is valid, its Offset is the End of the Error token that Scan
\* call returned, and its Line is the line that holds that offset, also
\* when the erroneous text spans several lines.
C33_ReportedPositionValid ==
    (scanner.name # "" /\ scanner.handler) =>
        \A i \in ErrorCalls :
            /\ history[i].calls1 = history[i].calls0 + 1
            /\ IsValid(Reported(i).pos)
            /\ Reported(i).pos.Line >= 1
            /\ 1 <= Reported(i).pos.StartCol
            /\ Reported(i).pos.StartCol <= Reported(i).pos.EndCol
            /\ Reported(i).pos.Offset = tokens[i].End
            /\ Reported(i).pos.Line = LineOf(tokens[i].End)

\* A raw string left open over two lines was reported on its second line.
C33_Witness ==
    /\ scanner.name # ""
    /\ scanner.handler
    /\ src = <<39, 97, 10, 98>>
    /\ Len(history) >= 1
    /\ tokens[1].Kind = "Error"
    /\ scanner.calls[1].pos.Line = 2
    /\ tokens[1].Start < 2

\* C34: no Scan call reports "unrecognised character": every Error token
\* comes from a call that dispatched on a quote or on a '$', and a call
\* that dispatches on any other character, bytes that are not valid UTF-8
\* and runes beyond ASCII included, returns a token that is not an Error.
C34_UnrecognisedUnreachable ==
    /\ \A k \in 1..Len(scanner.calls) :
          scanner.calls[k].msg.format # "unrecognised character: %q"
    /\ \A i \in ErrorCalls : Byte(DispatchAt(i)) \in {SQUOTE, DQUOTE, DOLLAR}
    /\ \A i \in 1..Len(history) :
          Byte(DispatchAt(i)) >= 128 => tokens[i].Kind = "String"

\* A call dispatched on a byte that is not valid UTF-8, another on a rune
\* of two bytes, and each returned a String token.
C34_Witness ==
    /\ Len(history) >= 1
    /\ tokens[Len(history)].Kind = "String"
    /\ \/ /\ Byte(DispatchAt(Len(history))) >= 128
          /\ RuneAt(DispatchAt(Len(history))) = RuneError
          /\ scanner.handler
       \/ /\ src = <<65, 61, 195, 169>>
          /\ tokens[Len(history)] = Token("String", 2, 4)

====
